---- MODULE Spec2Model ----
(***************************************************************************)
(* Model of the MindFry client transport layer: the RequestPipeline        *)
(* (packages/client/src/pipeline.ts) on top of the FrameDecoder            *)
(* (packages/client/src/framer.ts), with the socket, the clock and the     *)
(* server as the environment.                                              *)
(*                                                                         *)
(* Every request (one call of send) has an identity r in Reqs.  Besides    *)
(* the program state the model keeps observations of what the program did: *)
(*   phase    what send(r) did synchronously (idle / accepted / refused)   *)
(*   calls    how often the resolve/reject functions of r were invoked     *)
(*   outcome  the settled state of the promise of r (first invocation      *)
(*            wins, as for every JavaScript promise)                       *)
(*   written  the frames handed to socket.write, in order                  *)
(*   spared   the requests a timeout sweep left pending while it failed    *)
(*            an older one                                                 *)
(*                                                                         *)
(* DecoderSpec runs a FrameDecoder of its own, as the decoder tests do:    *)
(*   stream   the frames whose bytes are pushed into it, chunk by chunk    *)
(*   emitted  the 'frame' and 'error' events its listeners have recorded   *)
(*   fatal    it has reported an oversized frame since its last reset      *)
(*   resetAt  the number of events recorded when reset() was last called   *)
(*   twin     a second decoder, constructed at that moment and pushed the  *)
(*            same chunks since                                            *)
(*                                                                         *)
(* StringSpec takes one string through the string codec of the protocol    *)
(* package, as its tests do:                                               *)
(*   text     the string, the offset, the bytes encodeString made of it    *)
(*            behind a padding of that length, and what decodeString gave  *)
(*                                                                         *)
(* ClientSpec puts the MindFry client (same file) around the pipeline:     *)
(*   client   its socket and pipeline fields, the connect and disconnect   *)
(*            calls under way, and what the last connect() came to         *)
(***************************************************************************)
EXTENDS Integers, Sequences, FiniteSets, TLC

\* ------------------------------------------------------- protocol constants
RESPONSE_OK == 240
RESPONSE_ERROR == 241
RESPONSE_EVENT == 242
SYS_PING == 64
\* the length field of a frame: 4 bytes
HeaderSize == 4

\* ------------------------------------------------------------------ bounds
\* config.maxPending (default 1000), scaled down
MaxPending == 2
\* config.timeout (default 30000 ms), in clock units
Timeout == 1
\* config.maxFrameSize (default 16 MiB), scaled down
MaxFrameSize == 5
\* the clock stops here: late enough for the last request sent to time out
MaxTime == Timeout + 2
\* irregular events of the environment: failed writes, socket errors, the
\* close of the socket, frames no request asked for, chunks that end before
\* the bytes that have arrived
MaxFaults == 1
\* the length of a short chunk: it ends inside the length header
ChunkCut == HeaderSize - 1

\* send is called at most this many times: one more than fits
MaxReqs == MaxPending + 1
Reqs == 1..MaxReqs

\* ------------------------------------------------------------------- state
VARIABLES
    sequenceId,      \* RequestPipeline.sequenceId
    pending,         \* RequestPipeline.pending: Map in insertion order
    timeoutChecker,  \* RequestPipeline.timeoutChecker is not null
    listening,       \* the decoder still has its 'frame'/'error' listeners
    buffer,          \* FrameDecoder.buffer
    now,             \* Date.now()
    closed,          \* the socket has emitted 'close'
    writeQ,          \* socket.write calls whose callback has not run yet
    inbound,         \* bytes the server has sent and the socket has not yet delivered
    faults,          \* the irregular events of the environment so far
    phase, calls, outcome, written, spared, uncaught,
    stream,          \* the frames a decoder test feeds to a decoder of its own
    emitted,         \* the events the listeners of that test have recorded
    fatal,           \* that decoder has reported an oversized frame since its last reset
    resetAt,         \* the number of events recorded when it was last reset
    twin,            \* a second decoder, built at that moment and given the same chunks
    text,            \* a string on its way through encodeString and decodeString
    client           \* the MindFry client: its socket and pipeline fields, its calls

vars == <<sequenceId, pending, timeoutChecker, listening, buffer, now, closed,
          writeQ, inbound, faults,
          phase, calls, outcome, written, spared, uncaught, stream, emitted,
          fatal, resetAt, twin, text, client>>

\* ---------------------------------------------------------------- helpers
\* Map.prototype.delete: the other entries keep their order
MapDelete(m, k) == SelectSeq(m, LAMBDA e : e.seqId # k)

MapHas(m, k) == \E i \in 1..Len(m) : m[i].seqId = k

\* a map that puts a new key in front of the others
MapSetFront(m, k, v) ==
    IF MapHas(m, k)
    THEN [i \in 1..Len(m) |-> IF m[i].seqId = k THEN v ELSE m[i]]
    ELSE <<v>> \o m

\* Map.prototype.set: a new key is appended, an existing key keeps its place
MapSet(m, k, v) ==
    IF MapHas(m, k)
    THEN [i \in 1..Len(m) |-> IF m[i].seqId = k THEN v ELSE m[i]]
    ELSE Append(m, v)

\* the requests that have an entry in the pending map
PendingReqs(m) == {m[i].req : i \in 1..Len(m)}

NoOutcome == [kind |-> "none", by |-> "none", val |-> <<>>]
Resolved(data) == [kind |-> "resolved", by |-> "frame", val |-> data]
Rejected(by, val) == [kind |-> "rejected", by |-> by, val |-> val]

\* one invocation of resolve or reject of request r: the promise settles on
\* the first invocation and ignores the later ones
Invoke(s, r, o) ==
    [s EXCEPT !.calls[r] = @ + 1,
              !.outcome[r] = IF @.kind = "none" THEN o ELSE @]

\* ------------------------------------------------------------ wire format
U32LE(n) == <<n % 256, (n \div 256) % 256, (n \div 65536) % 256, (n \div 16777216) % 256>>

\* Buffer.readUInt32LE(0), for a header whose value is below 2^31
readUInt32LE(b) == b[1] + 256 * b[2] + 65536 * b[3] + 16777216 * b[4]

\* a size check that lets a frame one byte above the maximum pass
FrameTooLargeByTwo(b, max) == IF b[4] >= 128 THEN TRUE ELSE readUInt32LE(b) > max + 1

\* a size check that already refuses a frame of exactly the maximum
FrameTooLargeAtMax(b, max) == IF b[4] >= 128 THEN TRUE ELSE readUInt32LE(b) >= max

\* frameLen > maxFrameSize: a header with the top bit set declares at least
\* 2^31 and exceeds every maximum used here
FrameTooLarge(b, max) == IF b[4] >= 128 THEN TRUE ELSE readUInt32LE(b) > max

\* an encoder whose length field leaves the opcode out
encodeFrameBodyLength(opcode, payload) == U32LE(Len(payload)) \o <<opcode>> \o payload

\* encodeFrame: [u32 length][opcode][payload], the length counts opcode + payload
encodeFrame(opcode, payload) == U32LE(1 + Len(payload)) \o <<opcode>> \o payload

\* ------------------------------------------------------------------ text
\* A string is the sequence of its UTF-16 code units.
REPLACEMENT == 65533
BOM == 65279

HighSurrogate(c) == c >= 55296 /\ c <= 56319
LowSurrogate(c) == c >= 56320 /\ c <= 57343

\* the UTF-8 bytes of a code point
utf8Bytes(cp) ==
    IF cp < 128 THEN <<cp>>
    ELSE IF cp < 2048 THEN <<192 + (cp \div 64), 128 + (cp % 64)>>
    ELSE IF cp < 65536
         THEN <<224 + (cp \div 4096), 128 + ((cp \div 64) % 64), 128 + (cp % 64)>>
    ELSE <<240 + (cp \div 262144), 128 + ((cp \div 4096) % 64),
           128 + ((cp \div 64) % 64), 128 + (cp % 64)>>

\* TextEncoder.encode: a surrogate pair is one code point, a surrogate
\* without its partner is encoded as U+FFFD
RECURSIVE TextEncode(_)
TextEncode(str) ==
    IF str = <<>> THEN <<>>
    ELSE LET c == Head(str) IN
         IF HighSurrogate(c) /\ Len(str) >= 2 /\ LowSurrogate(str[2])
         THEN utf8Bytes(65536 + (c - 55296) * 1024 + (str[2] - 56320))
                \o TextEncode(Tail(Tail(str)))
         ELSE IF HighSurrogate(c) \/ LowSurrogate(c)
         THEN utf8Bytes(REPLACEMENT) \o TextEncode(Tail(str))
         ELSE utf8Bytes(c) \o TextEncode(Tail(str))

\* encodeString: [u16 length][utf8 bytes]; setUint16 keeps the low 16 bits
\* of the length
encodeString(str) ==
    LET bytes == TextEncode(str)
    IN  <<Len(bytes) % 256, (Len(bytes) \div 256) % 256>> \o bytes

\* what the UTF-8 decoder expects after a lead byte: the number of
\* continuation bytes and the range of the first of them; need = -1 for a
\* byte that cannot begin a sequence
utf8Lead(b) ==
    IF b < 128 THEN [need |-> 0, lower |-> 128, upper |-> 191]
    ELSE IF b >= 194 /\ b <= 223 THEN [need |-> 1, lower |-> 128, upper |-> 191]
    ELSE IF b = 224 THEN [need |-> 2, lower |-> 160, upper |-> 191]
    ELSE IF b = 237 THEN [need |-> 2, lower |-> 128, upper |-> 159]
    ELSE IF b >= 225 /\ b <= 239 THEN [need |-> 2, lower |-> 128, upper |-> 191]
    ELSE IF b = 240 THEN [need |-> 3, lower |-> 144, upper |-> 191]
    ELSE IF b = 244 THEN [need |-> 3, lower |-> 128, upper |-> 143]
    ELSE IF b >= 241 /\ b <= 243 THEN [need |-> 3, lower |-> 128, upper |-> 191]
    ELSE [need |-> -1, lower |-> 128, upper |-> 191]

\* the number of continuation bytes that follow the lead byte at position i
\* and are acceptable, up to the number needed
RECURSIVE utf8Continuations(_, _, _, _, _)
utf8Continuations(bytes, i, need, lower, upper) ==
    IF need = 0 \/ i + 1 > Len(bytes) THEN 0
    ELSE IF bytes[i + 1] < lower \/ bytes[i + 1] > upper THEN 0
    ELSE 1 + utf8Continuations(bytes, i + 1, need - 1, 128, 191)

\* the code units of a code point
codeUnits(cp) ==
    IF cp < 65536 THEN <<cp>>
    ELSE <<55296 + ((cp - 65536) \div 1024), 56320 + ((cp - 65536) % 1024)>>

\* the UTF-8 decoder from position i on: an ill-formed sequence gives one
\* U+FFFD for the bytes accepted so far, and decoding resumes at the byte
\* that did not fit
RECURSIVE utf8Decode(_, _)
utf8Decode(bytes, i) ==
    IF i > Len(bytes) THEN <<>>
    ELSE LET b == bytes[i]
             lead == utf8Lead(b)
             got == utf8Continuations(bytes, i, lead.need, lead.lower, lead.upper)
         IN  IF lead.need = 0 THEN <<b>> \o utf8Decode(bytes, i + 1)
             ELSE IF lead.need < 0 THEN <<REPLACEMENT>> \o utf8Decode(bytes, i + 1)
             ELSE IF got < lead.need
                  THEN <<REPLACEMENT>> \o utf8Decode(bytes, i + 1 + got)
             ELSE IF lead.need = 1
                  THEN codeUnits((b - 192) * 64 + (bytes[i + 1] - 128))
                         \o utf8Decode(bytes, i + 2)
             ELSE IF lead.need = 2
                  THEN codeUnits((b - 224) * 4096 + (bytes[i + 1] - 128) * 64
                                 + (bytes[i + 2] - 128))
                         \o utf8Decode(bytes, i + 3)
             ELSE codeUnits((b - 240) * 262144 + (bytes[i + 1] - 128) * 4096
                            + (bytes[i + 2] - 128) * 64 + (bytes[i + 3] - 128))
                    \o utf8Decode(bytes, i + 4)

\* new TextDecoder().decode: UTF-8, not fatal, and a byte order mark at the
\* beginning is left out of the result
TextDecode(bytes) ==
    LET units == utf8Decode(bytes, 1)
    IN  IF units # <<>> /\ Head(units) = BOM THEN Tail(units) ELSE units

\* Uint8Array.prototype.slice(from, to) with 0-based, clamped bounds
Slice(data, from, to) ==
    LET hi == IF to > Len(data) THEN Len(data) ELSE to
    IN  IF from >= hi THEN <<>> ELSE SubSeq(data, from + 1, hi)

\* MAX_FRAME_SIZE of the protocol package: the default maximum of the decoder
MAX_FRAME_SIZE == MaxFrameSize

\* buffer[4] of a buffer of four bytes
Undefined == -1

\* parseFrame: null while the header or the frame is incomplete, an exception
\* for a declared length above MAX_FRAME_SIZE, else opcode, payload and length
parseFrame(b) ==
    IF Len(b) < HeaderSize THEN [kind |-> "null"]
    ELSE IF FrameTooLarge(b, MAX_FRAME_SIZE) THEN [kind |-> "throw"]
    ELSE LET totalLength == HeaderSize + readUInt32LE(b) IN
         IF Len(b) < totalLength THEN [kind |-> "null"]
         ELSE [kind |-> "frame",
               opcode |-> IF Len(b) > HeaderSize THEN b[HeaderSize + 1] ELSE Undefined,
               payload |-> Slice(b, HeaderSize + 1, totalLength),
               totalLength |-> totalLength]

\* ---------------------------------------------------------- PayloadReader
\* DataView.getUint8 at offset: throws RangeError past the end
readU8(data, offset) ==
    IF offset + 1 > Len(data)
    THEN [threw |-> TRUE, value |-> 0, offset |-> offset]
    ELSE [threw |-> FALSE, value |-> data[offset + 1], offset |-> offset + 1]

\* decodeString: [u16 length][utf8 bytes]; getUint16 throws when fewer than two
\* bytes are left, slice clamps a declared length that runs past the end
decodeString(data, offset) ==
    IF offset + 2 > Len(data)
    THEN [threw |-> TRUE, str |-> <<>>, consumed |-> 0]
    ELSE LET length == data[offset + 1] + 256 * data[offset + 2]
         IN  [threw |-> FALSE,
              str |-> TextDecode(Slice(data, offset + 2, offset + 2 + length)),
              consumed |-> 2 + length]

readString(data, offset) ==
    LET d == decodeString(data, offset)
    IN  [threw |-> d.threw, value |-> d.str, offset |-> offset + d.consumed]

\* the members of the ErrorCode enum
ErrorCodes == {0, 1, 2, 16, 17, 32, 33, 48, 255}

\* ErrorCode[code]: the name of the enum member, one symbol per name, or
\* undefined (the symbol 512) for a number the enum does not have
ErrorCodeName(code) == IF code \in ErrorCodes THEN <<256 + code>> ELSE <<512>>

\* the message of a MindFryError: `[${ErrorCode[code]}] ${message}`
ErrorMessage(code, message) == <<91>> \o ErrorCodeName(code) \o <<93, 32>> \o message

\* a MindFryError: its code, followed by the characters of its message
MindFryError(code, message) == <<code>> \o ErrorMessage(code, message)

\* ------------------------------------------------------- RequestPipeline
\* nextSequenceId: (sequenceId + 1) & 0xffffffff; the operands of & are
\* converted to signed 32-bit integers, so 2^31 - 1 is followed by -2^31
nextSequenceId(s) == IF s = 2147483647 THEN (-2147483647) - 1 ELSE s + 1

\* a backpressure check that lets one request too many through
BackpressureOffByOne(p) == Len(p) > MaxPending

\* the backpressure check of send
Backpressure(p) == Len(p) >= MaxPending

\* an age test that already fails a request whose age equals the timeout
ExpiredAtTimeout(e, t) == t - e.timestamp >= Timeout

\* the age test of the timeout sweep
Expired(e, t) == t - e.timestamp > Timeout

RECURSIVE rejectEach(_, _, _)
rejectEach(s, entries, o) ==
    IF entries = <<>> THEN s
    ELSE rejectEach(Invoke(s, Head(entries).req, o), Tail(entries), o)

\* rejectAllPending: reject and delete every entry
rejectAllPending(s, by) ==
    [rejectEach(s, s.pending, Rejected(by, <<>>)) EXCEPT !.pending = <<>>]

\* a handler that takes every tag for a success
handleFrameAllSuccess(s, payload) ==
    IF Len(payload) < 1 \/ s.pending = <<>> THEN s
    ELSE Invoke([s EXCEPT !.pending = Tail(@)], Head(s.pending).req,
                Resolved(Tail(payload)))

\* a handler that resolves with the whole payload, tag included
handleFrameKeepingTag(s, payload) ==
    IF Len(payload) < 1 \/ s.pending = <<>> THEN s
    ELSE Invoke([s EXCEPT !.pending = Tail(@)], Head(s.pending).req,
                Resolved(payload))

\* a handler that answers the newest request instead of the oldest
handleFrameNewest(s, payload) ==
    IF Len(payload) < 1 \/ s.pending = <<>> THEN s
    ELSE Invoke([s EXCEPT !.pending = SubSeq(@, 1, Len(@) - 1)],
                s.pending[Len(s.pending)].req, Resolved(Tail(payload)))

\* a handler that takes RESPONSE_EVENT frames for events and answers no
\* request with them
handleFrameSparingEvents(s, payload) ==
    IF Len(payload) < 1 \/ s.pending = <<>> THEN s
    ELSE IF payload[1] = RESPONSE_EVENT THEN s
    ELSE Invoke([s EXCEPT !.pending = Tail(@)], Head(s.pending).req,
                Resolved(Tail(payload)))

\* a handler that answers the oldest request with an empty frame too
handleFrameTakingEmpty(s, payload) ==
    IF s.pending = <<>> THEN s
    ELSE Invoke([s EXCEPT !.pending = Tail(@)], Head(s.pending).req,
                Resolved(IF payload = <<>> THEN <<>> ELSE Tail(payload)))

\* a handler that raises an error for a frame nobody waits for
handleFrameEscalating(s, payload) ==
    IF Len(payload) < 1 THEN s
    ELSE IF s.pending = <<>> THEN [s EXCEPT !.threw = TRUE]
    ELSE Invoke([s EXCEPT !.pending = Tail(@)], Head(s.pending).req,
                Resolved(Tail(payload)))

\* handleFrame
handleFrame(s0, payload) ==
    LET s == s0 IN
    IF Len(payload) < 1 THEN s
    ELSE IF s.pending = <<>> THEN s
    ELSE
        LET opcode == payload[1]
            data == Tail(payload)
            request == Head(s.pending)
            t == [s EXCEPT !.pending = MapDelete(@, request.seqId)]
        IN  IF opcode = RESPONSE_ERROR
            THEN LET code == readU8(data, 0)
                     message == readString(data, code.offset)
                 IN  IF code.threw \/ message.threw
                     THEN [t EXCEPT !.threw = TRUE]
                     ELSE Invoke(t, request.req,
                                 Rejected("frame", MindFryError(code.value, message.value)))
            ELSE Invoke(t, request.req, Resolved(data))

\* the events FrameDecoder emits
FrameEvent(payload) == [ev |-> "frame", payload |-> payload]
ErrorEvent == [ev |-> "error", payload |-> <<>>]

\* a decoder that takes at most one frame out of the buffer per push
pushOnce(s) ==
    IF Len(s.buffer) < HeaderSize THEN s
    ELSE
        LET frameLen == readUInt32LE(s.buffer) IN
        IF FrameTooLarge(s.buffer, MaxFrameSize)
        THEN [s EXCEPT !.events = Append(@, ErrorEvent), !.buffer = <<>>]
        ELSE IF Len(s.buffer) < HeaderSize + frameLen THEN s
        ELSE [s EXCEPT
                !.events = Append(@, FrameEvent(SubSeq(s.buffer, HeaderSize + 1,
                                                       HeaderSize + frameLen))),
                !.buffer = SubSeq(@, HeaderSize + frameLen + 1, Len(@))]

\* the while loop of FrameDecoder.push, with the listeners the pipeline
\* installed; an exception thrown by a listener leaves push before the buffer
\* is advanced (or cleared)
RECURSIVE pushLoop(_)
pushLoop(s) ==
    IF Len(s.buffer) < HeaderSize THEN s
    ELSE
        LET frameLen == readUInt32LE(s.buffer) IN
        IF FrameTooLarge(s.buffer, MaxFrameSize)
        THEN LET e == [s EXCEPT !.events = Append(@, ErrorEvent)] IN
             IF s.listening
             THEN [rejectAllPending(e, "decoder") EXCEPT !.buffer = <<>>]
             ELSE [e EXCEPT !.threw = TRUE]
        ELSE IF Len(s.buffer) < HeaderSize + frameLen THEN s
        ELSE
            LET payload == SubSeq(s.buffer, HeaderSize + 1, HeaderSize + frameLen)
                e == [s EXCEPT !.events = Append(@, FrameEvent(payload))]
                t == IF s.listening THEN handleFrame(e, payload) ELSE e
            IN  IF t.threw THEN t
                ELSE pushLoop([t EXCEPT !.buffer =
                                 SubSeq(@, HeaderSize + frameLen + 1, Len(@))])

\* a push that keeps the last byte of the chunk after an oversized frame
pushKeepingTail(s, chunk) ==
    LET t == pushLoop([s EXCEPT !.buffer = @ \o chunk, !.threw = FALSE])
    IN  IF t.events # <<>> /\ t.events[Len(t.events)] = ErrorEvent
        THEN [t EXCEPT !.buffer = <<chunk[Len(chunk)]>>]
        ELSE t

\* a push that does not report frames without payload
pushDroppingEmpty(s, chunk) ==
    LET t == pushLoop([s EXCEPT !.buffer = @ \o chunk, !.threw = FALSE])
    IN  [t EXCEPT !.events = SelectSeq(@, LAMBDA e : e # FrameEvent(<<>>))]

\* a push that forgets the bytes it was holding
pushForgetful(s, chunk) == pushLoop([s EXCEPT !.buffer = chunk, !.threw = FALSE])

\* FrameDecoder.push
push(s, chunk) == pushLoop([s EXCEPT !.buffer = @ \o chunk, !.threw = FALSE])

\* the part of the state the handlers above work on
Cur == [pending |-> pending, buffer |-> buffer, listening |-> listening,
        calls |-> calls, outcome |-> outcome,
        threw |-> FALSE, events |-> <<>>]

Store(s) ==
    /\ pending' = s.pending
    /\ buffer' = s.buffer
    /\ calls' = s.calls
    /\ outcome' = s.outcome
    /\ uncaught' = (uncaught \/ s.threw)

\* what decodeString has returned: nothing yet
NoResult == [threw |-> FALSE, str |-> <<>>, consumed |-> 0]

\* no string is under way
NoText == [str |-> <<>>, offset |-> 0, data |-> <<>>, result |-> NoResult,
           step |-> "none"]

\* new MindFry(): socket and pipeline are null, nothing has been called
NoClient == [socket |-> "null", pipeline |-> FALSE, connecting |-> FALSE,
             ending |-> FALSE, built |-> FALSE, connected |-> 0,
             disconnected |-> FALSE, attempts |-> 0, lastConnect |-> "none"]

\* new FrameDecoder(): an empty buffer, nothing emitted
NewDecoder == [buffer |-> <<>>, events |-> <<>>]

Init ==
    /\ sequenceId = 0
    /\ pending = <<>>
    /\ timeoutChecker = TRUE
    /\ listening = TRUE
    /\ buffer = <<>>
    /\ now = 0
    /\ closed = FALSE
    /\ writeQ = <<>>
    /\ inbound = <<>>
    /\ faults = <<>>
    /\ phase = [r \in Reqs |-> "idle"]
    /\ calls = [r \in Reqs |-> 0]
    /\ outcome = [r \in Reqs |-> NoOutcome]
    /\ written = <<>>
    /\ spared = {}
    /\ uncaught = FALSE
    /\ stream = <<>>
    /\ emitted = <<>>
    /\ fatal = FALSE
    /\ resetAt = 0
    /\ twin = NewDecoder
    /\ text = NoText
    /\ client = NoClient

\* the next request to call send: requests are numbered in call order
NextReq == Cardinality({r \in Reqs : phase[r] # "idle"}) + 1

\* a refusal that has already taken a sequence number
sendRefusedCounting(r) ==
    /\ phase' = [phase EXCEPT ![r] = "refused"]
    /\ Store(Invoke(Cur, r, Rejected("backpressure", <<>>)))
    /\ sequenceId' = nextSequenceId(sequenceId)
    /\ UNCHANGED <<writeQ, written, spared>>

\* a refusal that hands the frame to the socket all the same
sendRefusedWriting(r) ==
    /\ phase' = [phase EXCEPT ![r] = "refused"]
    /\ Store(Invoke(Cur, r, Rejected("backpressure", <<>>)))
    /\ written' = Append(written, r)
    /\ UNCHANGED <<sequenceId, writeQ, spared>>

\* send, when the backpressure check fails: reject and return
sendRefused(r) ==
    /\ phase' = [phase EXCEPT ![r] = "refused"]
    /\ Store(Invoke(Cur, r, Rejected("backpressure", <<>>)))
    /\ UNCHANGED <<sequenceId, writeQ, written, spared>>

\* send, past the backpressure check: record the entry, write the frame
sendAccepted(r) ==
    LET seqId == nextSequenceId(sequenceId) IN
    /\ phase' = [phase EXCEPT ![r] = "accepted"]
    /\ sequenceId' = seqId
    /\ pending' = MapSet(pending, seqId,
                         [seqId |-> seqId, req |-> r,
                          opcode |-> SYS_PING, timestamp |-> now])
    /\ writeQ' = Append(writeQ, [req |-> r, seqId |-> seqId])
    /\ written' = Append(written, r)
    /\ UNCHANGED <<buffer, calls, outcome, spared, uncaught>>

\* RequestPipeline.send
send(r) ==
    /\ r = NextReq
    /\ now + Timeout < MaxTime
    /\ IF Backpressure(pending) THEN sendRefused(r) ELSE sendAccepted(r)
    /\ UNCHANGED <<timeoutChecker, listening, now, closed, inbound, faults, stream, emitted,
                   fatal, resetAt, twin, text, client>>

\* the replies of the server to request r: success, a well-formed error, and
\* an error frame whose body is cut short; each reply names its request
OkReply(r) == encodeFrame(RESPONSE_OK, <<r>>)
ErrReply(r) == encodeFrame(RESPONSE_ERROR, <<r, 1, 0, 109>>)
ShortErrReply(r) == encodeFrame(RESPONSE_ERROR, <<r>>)
Replies(r) == {OkReply(r), ErrReply(r), ShortErrReply(r)}
WellFormedReplies(r) == {OkReply(r), ErrReply(r)}

\* the callback of socket.write, without error: nothing to do for the
\* pipeline; the frame has left, and the reply of the server joins the bytes
\* on their way back
writeDoneOf(answers) ==
    /\ writeQ # <<>>
    /\ ~closed
    /\ writeQ' = Tail(writeQ)
    /\ \E f \in answers[Head(writeQ).req] : inbound' = inbound \o f
    /\ UNCHANGED <<sequenceId, pending, timeoutChecker, listening, buffer, now,
                   closed, faults, phase, calls, outcome, written, spared,
                   uncaught, stream, emitted,
                   fatal, resetAt, twin, text, client>>

writeDone == writeDoneOf([r \in Reqs |-> Replies(r)])

\* the same with a server whose error frames are always complete
writeDoneWellFormed == writeDoneOf([r \in Reqs |-> WellFormedReplies(r)])

\* a failed write that fails every pending request
writeFailedBroad ==
    /\ writeQ # <<>>
    /\ closed \/ Len(faults) < MaxFaults
    /\ faults' = IF closed THEN faults ELSE Append(faults, "write")
    /\ writeQ' = Tail(writeQ)
    /\ Store(rejectAllPending(Cur, "write"))
    /\ UNCHANGED <<sequenceId, timeoutChecker, listening, now, closed,
                   inbound, phase, written, spared, stream, emitted,
                   fatal, resetAt, twin, text, client>>

\* the callback of socket.write, with an error
writeFailed ==
    /\ writeQ # <<>>
    /\ closed \/ Len(faults) < MaxFaults
    /\ faults' = IF closed THEN faults ELSE Append(faults, "write")
    /\ writeQ' = Tail(writeQ)
    /\ LET w == Head(writeQ)
           s == [Cur EXCEPT !.pending = MapDelete(@, w.seqId)]
       IN  Store(Invoke(s, w.req, Rejected("write", <<>>)))
    /\ UNCHANGED <<sequenceId, timeoutChecker, listening, now, closed,
                   inbound, phase, written, spared, stream, emitted,
                   fatal, resetAt, twin, text, client>>

\* a destroy that fails every request ever accepted, pending or not
destroyOfEveryRequest(s) ==
    LET all == [i \in 1..Len(written) |-> [req |-> written[i]]]
    IN  [rejectEach([s EXCEPT !.buffer = <<>>, !.listening = FALSE], all,
                    Rejected("destroy", <<>>))
            EXCEPT !.pending = <<>>]

\* what destroy does to the decoder and the pending map: removeAllListeners,
\* reset, reject and delete every entry
destroyOf(s) ==
    rejectAllPending([s EXCEPT !.buffer = <<>>, !.listening = FALSE], "destroy")

\* a destroy that leaves the interval timer running
destroyKeepsTimer ==
    /\ timeoutChecker' = timeoutChecker
    /\ listening' = FALSE
    /\ Store(destroyOf(Cur))
    /\ UNCHANGED <<sequenceId, now, closed, writeQ, inbound, faults,
                   phase, written, spared, stream, emitted,
                   fatal, resetAt, twin, text, client>>

\* RequestPipeline.destroy
destroy ==
    /\ timeoutChecker' = FALSE
    /\ listening' = FALSE
    /\ Store(destroyOf(Cur))
    /\ UNCHANGED <<sequenceId, now, closed, writeQ, inbound, faults,
                   phase, written, spared, stream, emitted,
                   fatal, resetAt, twin, text, client>>

\* the interval callback of startTimeoutChecker
sweepEach(s, t) ==
    LET old == SelectSeq(s.pending, LAMBDA e : Expired(e, t))
    IN  [rejectEach(s, old, Rejected("timeout", <<>>))
            EXCEPT !.pending = SelectSeq(@, LAMBDA e : ~Expired(e, t))]

sweep ==
    /\ timeoutChecker
    /\ Store(sweepEach(Cur, now))
    /\ spared' = IF \E i \in 1..Len(pending) : Expired(pending[i], now)
                 THEN spared \cup PendingReqs(SelectSeq(pending, LAMBDA e : ~Expired(e, now)))
                 ELSE spared
    /\ UNCHANGED <<sequenceId, timeoutChecker, listening, now, closed, writeQ,
                   inbound, faults, phase, written, stream, emitted,
                   fatal, resetAt, twin, text, client>>

\* the sizes of the next chunk: everything that has arrived, or a short one
ChunkLens(bytes) == {k \in {ChunkCut, Len(bytes)} : k >= 1 /\ k <= Len(bytes)}

\* the socket hands over the next k bytes that have arrived
delivers(k) ==
    /\ ~closed
    /\ k \in ChunkLens(inbound)
    /\ k < Len(inbound) => Len(faults) < MaxFaults
    /\ inbound' = SubSeq(inbound, k + 1, Len(inbound))

\* socket 'data': the socket delivers the next k bytes
socketData(k) ==
    /\ delivers(k)
    /\ faults' = IF k < Len(inbound) THEN Append(faults, "chunk") ELSE faults
    /\ Store(push(Cur, SubSeq(inbound, 1, k)))
    /\ UNCHANGED <<sequenceId, timeoutChecker, listening, now, closed, writeQ,
                   phase, written, spared, stream, emitted,
                   fatal, resetAt, twin, text, client>>

\* socket 'error'
socketError ==
    /\ ~closed
    /\ Len(faults) < MaxFaults
    /\ faults' = Append(faults, "error")
    /\ Store(rejectAllPending(Cur, "error"))
    /\ UNCHANGED <<sequenceId, timeoutChecker, listening, now, closed, writeQ,
                   inbound, phase, written, spared, stream, emitted,
                   fatal, resetAt, twin, text, client>>

\* socket 'close'
socketClose ==
    /\ ~closed
    /\ Len(faults) < MaxFaults
    /\ faults' = Append(faults, "close")
    /\ closed' = TRUE
    /\ Store(rejectAllPending(Cur, "close"))
    /\ UNCHANGED <<sequenceId, timeoutChecker, listening, now, writeQ,
                   inbound, phase, written, spared, stream, emitted,
                   fatal, resetAt, twin, text, client>>

\* ------------------------------------------------------------ environment
\* frames no request asked for: an event, an empty frame, an oversized header
Pushed == {encodeFrame(RESPONSE_EVENT, <<0>>), U32LE(0), U32LE(MaxFrameSize + 1)}

serverPush ==
    /\ Len(faults) < MaxFaults
    /\ ~closed
    /\ \E f \in Pushed : inbound' = inbound \o f
    /\ faults' = Append(faults, "push")
    /\ UNCHANGED <<sequenceId, pending, timeoutChecker, listening, buffer, now,
                   closed, writeQ, phase, calls, outcome, written, spared, uncaught, stream, emitted,
                   fatal, resetAt, twin, text, client>>

\* time passes while a request waits
tick ==
    /\ now < MaxTime
    /\ pending # <<>>
    /\ now' = now + 1
    /\ UNCHANGED <<sequenceId, pending, timeoutChecker, listening, buffer,
                   closed, writeQ, inbound, faults, phase, calls,
                   outcome, written, spared, uncaught, stream, emitted,
                   fatal, resetAt, twin, text, client>>

Next ==
    \/ \E r \in Reqs : send(r)
    \/ writeDone
    \/ writeFailed
    \/ destroy
    \/ sweep
    \/ \E k \in ChunkLens(inbound) : socketData(k)
    \/ socketError
    \/ socketClose
    \/ serverPush
    \/ tick

Spec == Init /\ [][Next]_vars

\* the pipeline with a healthy connection and a well-behaved server: no
\* failed write, no socket error or close, no unsolicited or malformed frame
NextOrderly ==
    \/ \E r \in Reqs : send(r)
    \/ writeDoneWellFormed
    \/ destroy
    \/ sweep
    \/ \E k \in ChunkLens(inbound) : socketData(k)
    \/ tick

\* time passes, the interval timer fires while it is set, the event loop
\* delivers the bytes that have arrived and runs the callback of every write
\* (the socket 'data' steps are the only ones that take bytes off inbound)
FairOrderlySpec ==
    /\ Init
    /\ [][NextOrderly]_vars
    /\ WF_vars(tick)
    /\ WF_vars(sweep)
    /\ WF_inbound(\E k \in ChunkLens(inbound) : delivers(k))
    /\ WF_vars(writeDoneWellFormed)

\* ------------------------------------------- the pipeline after a long run
\* the largest signed 32-bit integer
MaxInt32 == 2147483647

\* The pipeline when every request of a long run has been answered: the
\* counter stands MaxPending sends below 2^31 - 1 and nothing is pending.
LongRunInit ==
    /\ sequenceId = MaxInt32 - MaxPending
    /\ pending = <<>>
    /\ timeoutChecker = TRUE
    /\ listening = TRUE
    /\ buffer = <<>>
    /\ now = 0
    /\ closed = FALSE
    /\ writeQ = <<>>
    /\ inbound = <<>>
    /\ faults = <<>>
    /\ phase = [r \in Reqs |-> "idle"]
    /\ calls = [r \in Reqs |-> 0]
    /\ outcome = [r \in Reqs |-> NoOutcome]
    /\ written = <<>>
    /\ spared = {}
    /\ uncaught = FALSE
    /\ stream = <<>>
    /\ emitted = <<>>
    /\ fatal = FALSE
    /\ resetAt = 0
    /\ twin = NewDecoder
    /\ text = NoText
    /\ client = NoClient

LongRunSpec == LongRunInit /\ [][Next]_vars

\* ------------------------------------------------- the decoder on its own
\* A FrameDecoder of its own, as the decoder tests build it: listeners that
\* record every 'frame' and 'error' event, and a stream of frames pushed in
\* chunks of any size.
MaxFrames == 2

\* the bytes of one frame on the wire: [u32 length][payload]
frameBytes(payload) == U32LE(Len(payload)) \o payload

\* payloads of every length up to the maximum, two of each length
DecoderPayloads ==
    {[i \in 1..n |-> b + i] : n \in 0..MaxFrameSize, b \in {SYS_PING, RESPONSE_OK}}

Streams == UNION {[1..n -> DecoderPayloads] : n \in 1..MaxFrames}

RECURSIVE streamBytes(_)
streamBytes(frames) ==
    IF frames = <<>> THEN <<>>
    ELSE frameBytes(Head(frames)) \o streamBytes(Tail(frames))

\* the decoder with the listeners of the test: they record and do nothing else
Bare == [Cur EXCEPT !.pending = <<>>, !.listening = TRUE]

DecoderInit ==
    /\ sequenceId = 0
    /\ pending = <<>>
    /\ timeoutChecker = TRUE
    /\ listening = TRUE
    /\ buffer = <<>>
    /\ now = 0
    /\ closed = FALSE
    /\ writeQ = <<>>
    /\ faults = <<>>
    /\ phase = [r \in Reqs |-> "idle"]
    /\ calls = [r \in Reqs |-> 0]
    /\ outcome = [r \in Reqs |-> NoOutcome]
    /\ written = <<>>
    /\ spared = {}
    /\ uncaught = FALSE
    /\ stream \in Streams
    /\ inbound = streamBytes(stream)
    /\ emitted = <<>>
    /\ fatal = FALSE
    /\ resetAt = 0
    /\ twin = NewDecoder
    /\ text = NoText
    /\ client = NoClient

\* decoder.push(chunk) with the next k bytes of the stream; the twin is
\* pushed the same chunk
decoderPush(k) ==
    /\ k \in 1..Len(inbound)
    /\ inbound' = SubSeq(inbound, k + 1, Len(inbound))
    /\ LET chunk == SubSeq(inbound, 1, k)
           s == push(Bare, chunk)
           t == push([Bare EXCEPT !.buffer = twin.buffer], chunk)
       IN  /\ buffer' = s.buffer
           /\ emitted' = emitted \o s.events
           /\ uncaught' = (uncaught \/ s.threw)
           /\ fatal' = (fatal \/ \E i \in 1..Len(s.events) : s.events[i] = ErrorEvent)
           /\ twin' = [buffer |-> t.buffer, events |-> twin.events \o t.events]
    /\ UNCHANGED <<sequenceId, pending, timeoutChecker, listening, now, closed,
                   writeQ, faults, phase, calls, outcome, written, spared, stream,
                   resetAt, text, client>>

DecoderNext == \E k \in 1..Len(inbound) : decoderPush(k)

DecoderSpec == DecoderInit /\ [][DecoderNext]_vars

\* ------------------------------------------- the decoder and a faulty peer
\* The same decoder, fed by a peer that also sends frames longer than the
\* maximum, and reset by its owner at any moment.

\* the bytes of the payloads: read as a length header they declare one byte
PeerByte(i) == IF i = 1 THEN 1 ELSE IF i <= HeaderSize THEN 0 ELSE 9

\* payloads of every length up to one more than the maximum
PeerPayloads == {[i \in 1..n |-> PeerByte(i)] : n \in 0..(MaxFrameSize + 1)}

PeerStreams == UNION {[1..n -> PeerPayloads] : n \in 1..MaxFrames}

PeerInit ==
    /\ sequenceId = 0
    /\ pending = <<>>
    /\ timeoutChecker = TRUE
    /\ listening = TRUE
    /\ buffer = <<>>
    /\ now = 0
    /\ closed = FALSE
    /\ writeQ = <<>>
    /\ faults = <<>>
    /\ phase = [r \in Reqs |-> "idle"]
    /\ calls = [r \in Reqs |-> 0]
    /\ outcome = [r \in Reqs |-> NoOutcome]
    /\ written = <<>>
    /\ spared = {}
    /\ uncaught = FALSE
    /\ stream \in PeerStreams
    /\ inbound = streamBytes(stream)
    /\ emitted = <<>>
    /\ fatal = FALSE
    /\ resetAt = 0
    /\ twin = NewDecoder
    /\ text = NoText
    /\ client = NoClient

\* a reset that spares an incomplete length header
resetSparingHeader(s) == IF Len(s.buffer) < HeaderSize THEN s ELSE [s EXCEPT !.buffer = <<>>]

\* FrameDecoder.reset
reset(s) == [s EXCEPT !.buffer = <<>>]

\* decoder.reset(), and a new twin from here on
decoderReset ==
    /\ buffer' = reset(Bare).buffer
    /\ fatal' = FALSE
    /\ resetAt' = Len(emitted)
    /\ twin' = NewDecoder
    /\ UNCHANGED <<sequenceId, pending, timeoutChecker, listening, now, closed,
                   writeQ, inbound, faults, phase, calls, outcome, written, spared,
                   uncaught, stream, emitted, text, client>>

PeerNext ==
    \/ \E k \in 1..Len(inbound) : decoderPush(k)
    \/ decoderReset

PeerSpec == PeerInit /\ [][PeerNext]_vars

\* ------------------------------------------------ encodeFrame and decoding
\* One frame made by encodeFrame, for payloads of every length up to the
\* maximum, pushed into a decoder in chunks of any size.
CodecOpcodes == {SYS_PING, RESPONSE_OK, RESPONSE_ERROR}

CodecBodies == {[i \in 1..n |-> b + i] : n \in 0..MaxFrameSize, b \in {0, 128}}

CodecInit ==
    /\ sequenceId = 0
    /\ pending = <<>>
    /\ timeoutChecker = TRUE
    /\ listening = TRUE
    /\ buffer = <<>>
    /\ now = 0
    /\ closed = FALSE
    /\ writeQ = <<>>
    /\ faults = <<>>
    /\ phase = [r \in Reqs |-> "idle"]
    /\ calls = [r \in Reqs |-> 0]
    /\ outcome = [r \in Reqs |-> NoOutcome]
    /\ written = <<>>
    /\ spared = {}
    /\ uncaught = FALSE
    /\ \E opcode \in CodecOpcodes, payload \in CodecBodies :
            /\ stream = << <<opcode>> \o payload >>
            /\ inbound = encodeFrame(opcode, payload)
    /\ emitted = <<>>
    /\ fatal = FALSE
    /\ resetAt = 0
    /\ twin = NewDecoder
    /\ text = NoText
    /\ client = NoClient

CodecSpec == CodecInit /\ [][DecoderNext]_vars

\* --------------------------------------------------------- the string codec
\* One string is encoded by encodeString, placed behind a padding, and
\* decoded by decodeString at the offset where it begins.
MaxStringLen == 2

\* a letter, a character of two and one of three UTF-8 bytes, the byte order
\* mark, and the two halves of a surrogate pair
StringAlphabet == {97, 233, 12371, BOM, 55357, 56832}

Strings == UNION {[1..n -> StringAlphabet] : n \in 0..MaxStringLen}

\* the offsets of the tests: none, and behind three bytes of padding
Offsets == {0, 3}

StringInit ==
    /\ sequenceId = 0
    /\ pending = <<>>
    /\ timeoutChecker = TRUE
    /\ listening = TRUE
    /\ buffer = <<>>
    /\ now = 0
    /\ closed = FALSE
    /\ writeQ = <<>>
    /\ inbound = <<>>
    /\ faults = <<>>
    /\ phase = [r \in Reqs |-> "idle"]
    /\ calls = [r \in Reqs |-> 0]
    /\ outcome = [r \in Reqs |-> NoOutcome]
    /\ written = <<>>
    /\ spared = {}
    /\ uncaught = FALSE
    /\ stream = <<>>
    /\ emitted = <<>>
    /\ fatal = FALSE
    /\ resetAt = 0
    /\ twin = NewDecoder
    /\ \E str \in Strings, offset \in Offsets :
            text = [NoText EXCEPT !.str = str, !.offset = offset, !.step = "start"]
    /\ client = NoClient

\* combined = [...prefix, ...encodeString(str)]
callEncodeString ==
    /\ text.step = "start"
    /\ text' = [text EXCEPT !.data = [i \in 1..text.offset |-> 0] \o encodeString(text.str),
                            !.step = "encoded"]
    /\ UNCHANGED <<sequenceId, pending, timeoutChecker, listening, buffer, now,
                   closed, writeQ, inbound, faults, phase, calls, outcome, written,
                   spared, uncaught, stream, emitted, fatal, resetAt, twin,
                   client>>

\* decodeString(combined, offset)
callDecodeString ==
    /\ text.step = "encoded"
    /\ text' = [text EXCEPT !.result = decodeString(text.data, text.offset),
                            !.step = "decoded"]
    /\ UNCHANGED <<sequenceId, pending, timeoutChecker, listening, buffer, now,
                   closed, writeQ, inbound, faults, phase, calls, outcome, written,
                   spared, uncaught, stream, emitted, fatal, resetAt, twin,
                   client>>

StringNext == callEncodeString \/ callDecodeString

StringSpec == StringInit /\ [][StringNext]_vars

\* ------------------------------------------------------------------ client
\* The MindFry client: connect builds a socket and, once it is connected, a
\* RequestPipeline on it; every API operation goes through MindFry.send.
\* The pipeline variables describe the pipeline built last and its socket.

\* connect() is called at most this many times
MaxConnects == 2

\* a client nobody has connected: there is no pipeline, so no timer and no
\* listeners either
ClientInit ==
    /\ sequenceId = 0
    /\ pending = <<>>
    /\ timeoutChecker = FALSE
    /\ listening = FALSE
    /\ buffer = <<>>
    /\ now = 0
    /\ closed = FALSE
    /\ writeQ = <<>>
    /\ inbound = <<>>
    /\ faults = <<>>
    /\ phase = [r \in Reqs |-> "idle"]
    /\ calls = [r \in Reqs |-> 0]
    /\ outcome = [r \in Reqs |-> NoOutcome]
    /\ written = <<>>
    /\ spared = {}
    /\ uncaught = FALSE
    /\ stream = <<>>
    /\ emitted = <<>>
    /\ fatal = FALSE
    /\ resetAt = 0
    /\ twin = NewDecoder
    /\ text = NoText
    /\ client = NoClient

\* MindFry.isConnected: socket.destroyed is true once the socket has closed
isConnected == client.socket # "null" /\ ~closed

\* MindFry.pendingRequests
pendingRequests == IF client.pipeline THEN Len(pending) ELSE 0

\* MindFry.connect, up to the point where it waits for the socket: it throws
\* when the socket field is set.  One connect is under way at a time
connectCall ==
    /\ client.attempts < MaxConnects
    /\ ~client.connecting
    /\ client' = IF client.socket # "null"
                 THEN [client EXCEPT !.attempts = @ + 1,
                                     !.lastConnect = "Already connected"]
                 ELSE [client EXCEPT !.attempts = @ + 1,
                                     !.connecting = TRUE,
                                     !.lastConnect = "pending"]
    /\ UNCHANGED <<sequenceId, pending, timeoutChecker, listening, buffer, now,
                   closed, writeQ, inbound, faults, phase, calls, outcome, written,
                   spared, uncaught, stream, emitted, fatal, resetAt, twin, text>>

\* the connect callback: the socket is stored and a new RequestPipeline is
\* built on it
connectSucceeds ==
    /\ client.connecting
    /\ client' = [client EXCEPT !.socket = "set", !.pipeline = TRUE,
                                !.connecting = FALSE, !.built = TRUE,
                                !.connected = @ + 1, !.disconnected = FALSE,
                                !.lastConnect = "resolved"]
    /\ sequenceId' = 0
    /\ pending' = <<>>
    /\ timeoutChecker' = TRUE
    /\ listening' = TRUE
    /\ buffer' = <<>>
    /\ closed' = FALSE
    /\ writeQ' = <<>>
    /\ inbound' = <<>>
    /\ UNCHANGED <<now, faults, phase, calls, outcome, written, spared, uncaught,
                   stream, emitted, fatal, resetAt, twin, text>>

\* the connect timeout fires, or the socket reports an error before it is
\* connected: the promise is rejected and the socket field stays null
connectFails(why) ==
    /\ client.connecting
    /\ client' = [client EXCEPT !.connecting = FALSE, !.lastConnect = why]
    /\ UNCHANGED <<sequenceId, pending, timeoutChecker, listening, buffer, now,
                   closed, writeQ, inbound, faults, phase, calls, outcome, written,
                   spared, uncaught, stream, emitted, fatal, resetAt, twin, text>>

\* a disconnect that destroys the pipeline and keeps it in its field
disconnectKeepingPipeline ==
    /\ ~client.ending
    /\ IF client.pipeline
       THEN /\ timeoutChecker' = FALSE
            /\ listening' = FALSE
            /\ Store(destroyOf(Cur))
       ELSE UNCHANGED <<timeoutChecker, listening, pending, buffer, calls,
                        outcome, uncaught>>
    /\ client' = [client EXCEPT !.ending = (client.socket # "null"),
                                !.disconnected = TRUE]
    /\ UNCHANGED <<sequenceId, now, closed, writeQ, inbound, faults, phase,
                   written, spared, stream, emitted, fatal, resetAt, twin, text>>

\* MindFry.disconnect, up to the point where it waits for socket.end: the
\* pipeline is destroyed and dropped.  One disconnect is under way at a time
disconnectCall ==
    /\ ~client.ending
    /\ IF client.pipeline
       THEN /\ timeoutChecker' = FALSE
            /\ listening' = FALSE
            /\ Store(destroyOf(Cur))
       ELSE UNCHANGED <<timeoutChecker, listening, pending, buffer, calls,
                        outcome, uncaught>>
    /\ client' = [client EXCEPT !.pipeline = FALSE,
                                !.ending = (client.socket # "null"),
                                !.disconnected = TRUE]
    /\ UNCHANGED <<sequenceId, now, closed, writeQ, inbound, faults, phase,
                   written, spared, stream, emitted, fatal, resetAt, twin, text>>

\* the callback of socket.end: the socket field is cleared
endDone ==
    /\ client.ending
    /\ client' = [client EXCEPT !.socket = "null", !.ending = FALSE]
    /\ UNCHANGED <<sequenceId, pending, timeoutChecker, listening, buffer, now,
                   closed, writeQ, inbound, faults, phase, calls, outcome, written,
                   spared, uncaught, stream, emitted, fatal, resetAt, twin, text>>

\* MindFry.send without a pipeline: it throws before a frame is made
notConnected(r) ==
    /\ r = NextReq
    /\ phase' = [phase EXCEPT ![r] = "unconnected"]
    /\ Store(Invoke(Cur, r, Rejected("notconnected", <<>>)))
    /\ UNCHANGED <<sequenceId, timeoutChecker, listening, now, closed, writeQ,
                   inbound, faults, written, spared, stream, emitted,
                   fatal, resetAt, twin, text, client>>

\* MindFry.send: an API operation
apiSend(r) == IF client.pipeline THEN send(r) ELSE notConnected(r)

\* the socket, the clock and the server act on the pipeline built last
ClientNext ==
    \/ connectCall
    \/ connectSucceeds
    \/ \E why \in {"timeout", "error"} : connectFails(why)
    \/ disconnectCall
    \/ endDone
    \/ \E r \in Reqs : apiSend(r)
    \/ client.built /\ writeDone
    \/ client.built /\ writeFailed
    \/ client.built /\ sweep
    \/ client.built /\ \E k \in ChunkLens(inbound) : socketData(k)
    \/ client.built /\ socketError
    \/ client.built /\ socketClose
    \/ client.built /\ serverPush
    \/ client.built /\ tick

ClientSpec == ClientInit /\ [][ClientNext]_vars

\* ----------------------------------------------------------------- claims
InPending(r) == r \in PendingReqs(pending)

PositionOf(r) == CHOOSE i \in 1..Len(pending) : pending[i].req = r

AgeOf(r) == now - pending[PositionOf(r)].timestamp

\* the order of the requests in a pending map
OrderOf(m) == [i \in 1..Len(m) |-> m[i].req]

\* only sends, frames, timeout sweeps and failed writes so far, with a server
\* that sends one reply per request it received, in order, and nothing else
OrderlyServer ==
    /\ \A i \in 1..Len(faults) : faults[i] \in {"write", "chunk"}
    /\ listening

\* nothing but sends and frames so far: no timeout, failed write, socket
\* error, close, destroy or unsolicited frame
Undisturbed ==
    /\ \A i \in 1..Len(faults) : faults[i] = "chunk"
    /\ listening
    /\ timeoutChecker
    /\ \A r \in Reqs : outcome[r].by # "timeout"

\* request r was terminated, once, by the frame the server sent in reply to it
TerminatedByOwnFrame(r) ==
    /\ calls[r] = 1
    /\ outcome[r] \in {Resolved(<<r>>), Rejected("frame", MindFryError(r, <<109>>))}

\* C1: FIFO resolution.  While only sends and non-empty response frames
\* happen, every request that has left the pending set was terminated by its
\* own frame, and the requests leave the pending set in the order they were
\* sent: frame Fi terminates request Ri.
C1_FifoResolution ==
    Undisturbed =>
        \A i \in 1..Len(written) :
            /\ InPending(written[i]) \/ TerminatedByOwnFrame(written[i])
            /\ \A j \in 1..(i - 1) : InPending(written[j]) => InPending(written[i])

\* C2: response correlation.  With a server that sends one reply per request
\* it received, in order, and nothing else, and under every interleaving of
\* sends, frames, timeout sweeps and failed writes, a request terminated by a
\* frame is terminated by the reply to that same request.
C2_ResponseCorrelation ==
    OrderlyServer =>
        \A r \in Reqs :
            outcome[r].by = "frame" => outcome[r].val # <<>> /\ outcome[r].val[1] = r

\* C3: exactly-once termination.  The resolve and reject functions of a
\* request are invoked at most once in total.
C3_ExactlyOnce == \A r \in Reqs : calls[r] <= 1

\* C4: no silent removal.  A step that removes the entry of a request from
\* the pending set invokes one of its continuations.
C4_NoSilentRemoval ==
    [][\A r \in Reqs : (InPending(r) /\ ~InPending(r)') => calls'[r] = calls[r] + 1]_vars

\* C5: liveness of send.  Every send that passed the backpressure check is
\* eventually resolved or rejected.
C5_SendTerminates ==
    \A r \in Reqs : (phase[r] = "accepted") ~> (outcome[r].kind # "none")

\* C6: backpressure boundary.  A send issued while fewer than maxPending
\* requests are pending is accepted and its frame is written; a send issued
\* while maxPending are pending is rejected with the backpressure error and
\* writes nothing.
C6_BackpressureBoundary ==
    [][\A r \in Reqs :
        (phase[r] = "idle" /\ phase'[r] # "idle") =>
            IF Len(pending) < MaxPending
            THEN /\ phase'[r] = "accepted"
                 /\ InPending(r)'
                 /\ written' = Append(written, r)
                 /\ Len(writeQ') = Len(writeQ) + 1
                 /\ calls'[r] = 0
            ELSE /\ phase'[r] = "refused"
                 /\ outcome'[r] = Rejected("backpressure", <<>>)
                 /\ calls'[r] = 1
                 /\ written' = written
                 /\ writeQ' = writeQ]_vars

\* maxPending requests are outstanding, all written, and one more was refused
C6_Witness ==
    /\ Len(pending) = MaxPending
    /\ Len(written) = MaxPending
    /\ \E r \in Reqs : phase[r] = "refused" /\ outcome[r].by = "backpressure"

\* C7: a send rejected for backpressure changes neither the pending set, nor
\* the sequence counter, nor the decoder buffer, nor what was written.
C7_RefusalHasNoSideEffect ==
    [][\A r \in Reqs :
        (phase[r] = "idle" /\ phase'[r] = "refused") =>
            /\ pending' = pending
            /\ sequenceId' = sequenceId
            /\ buffer' = buffer
            /\ written' = written
            /\ writeQ' = writeQ
            /\ inbound' = inbound]_vars

\* a send was refused while the decoder held a partial frame
C7_Witness ==
    /\ \E r \in Reqs : phase[r] = "refused"
    /\ Len(pending) = MaxPending
    /\ sequenceId = MaxPending
    /\ buffer # <<>>

\* C8: bounded pending set.  pendingCount never exceeds maxPending.
C8_BoundedPending == Len(pending) <= MaxPending

\* the pending set is full and a further send was refused
C8_Witness ==
    /\ Len(pending) = MaxPending
    /\ \E r \in Reqs : phase[r] = "refused"

\* C9: timeout isolation.  A sweep that fails an expired request leaves the
\* requests that have not expired pending, in their order, with no
\* continuation invoked, and such a request is later resolved normally: the
\* frame that terminates it is the reply to it.
C9_TimeoutIsolation ==
    [][/\ sweep =>
            \A r \in Reqs :
                (InPending(r) /\ AgeOf(r) <= Timeout) =>
                    /\ InPending(r)'
                    /\ calls'[r] = calls[r]
                    /\ outcome'[r] = outcome[r]
       /\ sweep =>
            OrderOf(pending') = OrderOf(SelectSeq(pending, LAMBDA e : now - e.timestamp <= Timeout))
       /\ \A r \in spared' :
            outcome'[r].by = "frame" => outcome'[r].val # <<>> /\ outcome'[r].val[1] = r]_vars

\* C10: timeout sweep selection.  A sweep removes and rejects with the
\* timeout error exactly the pending entries whose age exceeds the timeout;
\* no request whose age is at most the timeout gets a timeout error.
C10_SweepSelection ==
    [][/\ sweep =>
            \A r \in Reqs :
                InPending(r) =>
                    IF AgeOf(r) > Timeout
                    THEN /\ ~InPending(r)'
                         /\ calls'[r] = calls[r] + 1
                         /\ outcome[r].kind = "none" => outcome'[r] = Rejected("timeout", <<>>)
                    ELSE /\ InPending(r)'
                         /\ calls'[r] = calls[r]
       /\ \A r \in Reqs :
            (outcome'[r].by = "timeout" /\ outcome[r].by # "timeout") =>
                InPending(r) /\ AgeOf(r) > Timeout]_vars

\* a sweep has failed one request and left a younger one pending
C10_Witness ==
    \E r, q \in Reqs :
        /\ outcome[r] = Rejected("timeout", <<>>)
        /\ q \in spared
        /\ InPending(q)

\* the next chunk of k bytes makes the decoder report an oversized frame
DecoderFatal(k) ==
    LET s == push(Cur, SubSeq(inbound, 1, k))
    IN  \E i \in 1..Len(s.events) : s.events[i] = ErrorEvent

\* C11: broad failure.  A socket 'error', a socket 'close' or a fatal error
\* of the decoder rejects every entry that is pending at that moment, and the
\* pending set is empty right afterwards.
C11_BroadFailure ==
    [][/\ socketError =>
            /\ pending' = <<>>
            /\ \A r \in Reqs : InPending(r) =>
                    calls'[r] = calls[r] + 1 /\ outcome'[r] = Rejected("error", <<>>)
       /\ socketClose =>
            /\ pending' = <<>>
            /\ \A r \in Reqs : InPending(r) =>
                    calls'[r] = calls[r] + 1 /\ outcome'[r] = Rejected("close", <<>>)
       /\ \A k \in ChunkLens(inbound) :
            (socketData(k) /\ DecoderFatal(k)) =>
                /\ pending' = <<>>
                /\ \A r \in Reqs : InPending(r) =>
                        /\ calls'[r] = calls[r] + 1
                        /\ outcome'[r].by \in {"decoder", "frame"}]_vars

\* C12: narrow write failure.  A failed write removes the entry of its own
\* request and rejects its caller with the write error; the other entries
\* stay pending in their order and none of their continuations is invoked.
C12_NarrowWriteFailure ==
    [][\A w \in Reqs :
        (writeQ # <<>> /\ Head(writeQ).req = w /\ writeFailed) =>
          /\ ~InPending(w)'
          /\ InPending(w) => calls'[w] = calls[w] + 1
          /\ outcome[w].kind = "none" => outcome'[w] = Rejected("write", <<>>)
          /\ OrderOf(pending') = OrderOf(SelectSeq(pending, LAMBDA e : e.req # w))
          /\ \A r \in Reqs \ {w} :
                calls'[r] = calls[r] /\ outcome'[r] = outcome[r]]_vars

\* a write has failed for one request while another one stays pending, untouched
C12_Witness ==
    \E r, q \in Reqs :
        /\ outcome[r] = Rejected("write", <<>>)
        /\ InPending(q)
        /\ calls[q] = 0

\* C13: destroy fails everything and stops the machinery.  destroy rejects
\* every pending entry with the 'destroyed' error, leaves the pending set and
\* the decoder buffer empty and clears the timer; once the timer is cleared it
\* stays cleared and no request is failed by a timeout any more.
C13_DestroyStopsEverything ==
    [][/\ destroy =>
            /\ pending' = <<>>
            /\ buffer' = <<>>
            /\ ~timeoutChecker'
            /\ \A r \in Reqs : InPending(r) =>
                    calls'[r] = calls[r] + 1 /\ outcome'[r] = Rejected("destroy", <<>>)
       /\ ~timeoutChecker =>
            /\ ~timeoutChecker'
            /\ \A r \in Reqs : outcome'[r].by = "timeout" => outcome[r].by = "timeout"]_vars

\* destroy has failed a pending request and cleared the timer, and a request
\* sent later has outlived the timeout
C13_Witness ==
    /\ ~timeoutChecker
    /\ \E r \in Reqs : outcome[r] = Rejected("destroy", <<>>)
    /\ \E q \in Reqs : InPending(q) /\ AgeOf(q) > Timeout

\* C14: teardown idempotence.  destroy never throws; called when nothing is
\* pending it invokes no continuation; called a second time it leaves the
\* state as the first call left it.
C14_TeardownIdempotence ==
    LET once == destroyOf(Cur)
        twice == destroyOf(once)
    IN  /\ ~once.threw
        /\ ~twice.threw
        /\ twice = once
        /\ pending = <<>> => once.calls = calls /\ once.outcome = outcome

\* destroy has run, after it has failed a request
C14_Witness ==
    /\ ~timeoutChecker
    /\ ~listening
    /\ pending = <<>>
    /\ \E r \in Reqs : calls[r] = 1 /\ outcome[r] = Rejected("destroy", <<>>)

\* error codes and messages a server may put into an error frame
TestedCodes == {0, 1, 3, 255}
TestedMessages == {<<>>, <<109>>, <<33>>}

\* the frame payload of an error response with code X and message m
ErrorPayload(X, m) == <<RESPONSE_ERROR, X>> \o encodeString(m)

\* the oldest pending request
Oldest == Head(pending).req

SuccessPayloads ==
    {<<tag>> \o [i \in 1..n |-> i] :
        tag \in {RESPONSE_OK, RESPONSE_EVENT, SYS_PING, 0}, n \in 0..(MaxFrameSize - 1)}

\* error frames: complete ones, and ones whose body is cut short
ErrorPayloads ==
    {ErrorPayload(X, m) : X \in TestedCodes, m \in TestedMessages}
        \cup {<<RESPONSE_ERROR>>, <<RESPONSE_ERROR, 1>>, <<RESPONSE_ERROR, 1, 5>>}

C17_SuccessPayload ==
    pending # <<>> =>
        \A p \in SuccessPayloads :
            LET t == handleFrame(Cur, p)
            IN  /\ ~t.threw
                /\ t.calls[Oldest] = calls[Oldest] + 1
                /\ outcome[Oldest].kind = "none" =>
                    /\ t.outcome[Oldest].kind = "resolved"
                    /\ t.outcome[Oldest].val = [i \in 1..(Len(p) - 1) |-> p[i + 1]]

\* a success frame has resolved a request with the body of its reply
C17_Witness ==
    \E r \in Reqs : calls[r] = 1 /\ outcome[r] = Resolved(<<r>>)

\* the buffer starts with a complete frame
HoldsFrame(b) ==
    /\ Len(b) >= HeaderSize
    /\ ~FrameTooLarge(b, MaxFrameSize)
    /\ Len(b) >= HeaderSize + readUInt32LE(b)

\* C18: unsolicited frame.  A frame handled while nothing is pending is
\* dropped: no continuation is invoked, the pending set stays empty and no
\* error is raised; and the decoder does not keep the frame for a later send.
C18_UnsolicitedFrame ==
    [][/\ pending = <<>> =>
            \A p \in SuccessPayloads \cup ErrorPayloads :
                handleFrame(Cur, p) = Cur
       /\ \A k \in ChunkLens(inbound) :
            (socketData(k) /\ pending = <<>> /\ ~DecoderFatal(k)) =>
                /\ pending' = <<>>
                /\ calls' = calls
                /\ outcome' = outcome
                /\ uncaught' = uncaught
                /\ ~HoldsFrame(buffer')]_vars

\* the reply to a request that had timed out has arrived while nothing was
\* pending, and it is gone
C18_Witness ==
    /\ written = <<1>>
    /\ outcome[1].by = "timeout"
    /\ calls[1] = 1
    /\ pending = <<>>
    /\ writeQ = <<>>
    /\ inbound = <<>>
    /\ buffer = <<>>
    /\ faults = <<>>
    /\ ~uncaught

\* C19: fragmentation invariance.  The bytes of one frame, pushed into a
\* fresh decoder in chunks of any sizes, make the decoder emit nothing before
\* the last chunk, and with the last chunk exactly one frame event that
\* carries the original payload; no byte is left in the buffer.
C19_FragmentationInvariance ==
    Len(stream) = 1 =>
        /\ ~uncaught
        /\ inbound # <<>> => emitted = <<>>
        /\ inbound = <<>> => emitted = <<FrameEvent(stream[1])>> /\ buffer = <<>>

\* the decoder holds a part of the length header of a single frame
C19_Witness ==
    /\ Len(stream) = 1
    /\ Len(stream[1]) = MaxFrameSize
    /\ Len(buffer) \in 1..(HeaderSize - 1)
    /\ emitted = <<>>

\* nothing has been pushed into the decoder yet
Fresh ==
    /\ inbound = streamBytes(stream)
    /\ buffer = <<>>
    /\ emitted = <<>>

\* the number of frames of the stream that lie whole within its first k bytes
WholeFrames(k) ==
    CHOOSE n \in 0..Len(stream) :
        /\ Len(streamBytes(SubSeq(stream, 1, n))) <= k
        /\ n < Len(stream) => Len(streamBytes(SubSeq(stream, 1, n + 1))) > k

\* C20: coalescing.  The first push of k bytes into a fresh decoder emits one
\* frame event for every frame that lies whole within the k bytes, in stream
\* order and with its own payload, and leaves exactly the bytes that follow
\* these frames in the buffer (none when the chunk ends with a frame); when
\* the rest of the stream has been pushed every frame has been emitted once.
C20_Coalescing ==
    [][LET k == Len(inbound) - Len(inbound')
           n == WholeFrames(k)
       IN  /\ Fresh =>
                /\ emitted' = [i \in 1..n |-> FrameEvent(stream[i])]
                /\ Len(buffer') = k - Len(streamBytes(SubSeq(stream, 1, n)))
           /\ inbound' = <<>> =>
                /\ emitted' = [i \in 1..Len(stream) |-> FrameEvent(stream[i])]
                /\ buffer' = <<>>]_vars

\* one frame has been emitted and a part of the payload of the next one waits
C20_Witness ==
    /\ Len(stream) = 2
    /\ emitted = <<FrameEvent(stream[1])>>
    /\ Len(buffer) > HeaderSize
    /\ inbound # <<>>

\* a step that pushes a chunk into the decoder, the chunk, and the events the
\* push adds to the record
Pushing == inbound' # inbound
Chunk == SubSeq(inbound, 1, Len(inbound) - Len(inbound'))
NewEvents == SubSeq(emitted', Len(emitted) + 1, Len(emitted'))

\* what is left of b when the complete frames at its head are taken away
RECURSIVE AfterWholeFrames(_)
AfterWholeFrames(b) ==
    IF HoldsFrame(b)
    THEN AfterWholeFrames(SubSeq(b, HeaderSize + readUInt32LE(b) + 1, Len(b)))
    ELSE b

\* the number of complete frames at the head of b
RECURSIVE CountWholeFrames(_)
CountWholeFrames(b) ==
    IF HoldsFrame(b)
    THEN 1 + CountWholeFrames(SubSeq(b, HeaderSize + readUInt32LE(b) + 1, Len(b)))
    ELSE 0

\* decoding b comes upon a header that declares more than the maximum
MeetsOversized(b) ==
    LET r == AfterWholeFrames(b)
    IN  Len(r) >= HeaderSize /\ FrameTooLarge(r, MaxFrameSize)

\* C21: oversized rejection.  A push that meets a length header declaring
\* more than the maximum emits exactly one error event, as its last event and
\* after one frame event for each complete frame that precedes the header;
\* it returns with no pending bytes, so nothing that follows the header in
\* the buffer is decoded.
C21_OversizedRejection ==
    [][(Pushing /\ MeetsOversized(buffer \o Chunk)) =>
            /\ Cardinality({i \in 1..Len(NewEvents) : NewEvents[i] = ErrorEvent}) = 1
            /\ Len(NewEvents) = CountWholeFrames(buffer \o Chunk) + 1
            /\ NewEvents[Len(NewEvents)] = ErrorEvent
            /\ Len(buffer') = 0
            /\ uncaught' = uncaught]_vars

\* a frame and an oversized frame have arrived in one chunk: one frame event,
\* one error event, and the bytes after the oversized header are gone
C21_Witness ==
    /\ Len(stream) = 2
    /\ Len(stream[1]) = 1
    /\ Len(stream[2]) = MaxFrameSize + 1
    /\ emitted = <<FrameEvent(stream[1]), ErrorEvent>>
    /\ inbound = <<>>
    /\ buffer = <<>>
    /\ fatal

\* C22: the decoder halts after a fatal error.  Once a push has reported an
\* oversized frame, no later push emits a frame event or an error event
\* until reset() is called.
C22_HaltAfterFatal ==
    [][(Pushing /\ fatal) => NewEvents = <<>>]_vars

\* C23: decoder buffer invariant.  Whenever a push has returned the buffer
\* holds no byte, or fewer than 4 bytes, or a header that declares L, at most
\* the maximum, followed by fewer than L bytes of payload: never a complete
\* frame, never a header that declares more than the maximum.
C23_BufferInvariant ==
    \/ Len(buffer) = 0
    \/ Len(buffer) < HeaderSize
    \/ /\ ~FrameTooLarge(buffer, MaxFrameSize)
       /\ readUInt32LE(buffer) <= MaxFrameSize
       /\ Len(buffer) - HeaderSize < readUInt32LE(buffer)

\* after a frame was emitted the decoder holds a header declaring the maximum
\* and all of its payload but the last byte
C23_Witness ==
    /\ emitted # <<>>
    /\ Len(buffer) = HeaderSize + MaxFrameSize - 1
    /\ readUInt32LE(buffer) = MaxFrameSize

\* the opcode and the payload encodeFrame was given
SentOpcode == Head(stream[1])
SentPayload == Tail(stream[1])

\* decoding the frame encodeFrame made of SentOpcode and SentPayload gives
\* both back: no error at any moment, exactly one frame event once all bytes
\* are pushed, carrying opcode and payload, nothing left in the buffer; and
\* parseFrame returns the same opcode and payload
RoundTrip ==
    /\ ~uncaught
    /\ ~fatal
    /\ inbound # <<>> => emitted = <<>>
    /\ inbound = <<>> =>
            /\ emitted = <<FrameEvent(<<SentOpcode>> \o SentPayload)>>
            /\ buffer = <<>>
    /\ LET frame == encodeFrame(SentOpcode, SentPayload)
       IN  parseFrame(frame) = [kind |-> "frame", opcode |-> SentOpcode,
                                payload |-> SentPayload, totalLength |-> Len(frame)]

\* C24: framing round-trip.  For every opcode and every payload of length n
\* with 0 <= n <= MaxFrameSize - 1, so that the length field 1 + n is at most
\* the maximum, encoding with encodeFrame and decoding with a FrameDecoder of
\* that maximum and with parseFrame gives back the opcode and the payload,
\* with no decode error.
C24_FramingRoundTrip ==
    Len(SentPayload) <= MaxFrameSize - 1 => RoundTrip

\* C24 as stated, for payloads of every length up to MaxFrameSize
C24_RoundTripUpToMaximum ==
    Len(SentPayload) <= MaxFrameSize => RoundTrip

\* the longest payload whose frame the decoder accepts has come back
C24_Witness ==
    /\ Len(SentPayload) = MaxFrameSize - 1
    /\ SentOpcode = RESPONSE_ERROR
    /\ inbound = <<>>
    /\ emitted = <<FrameEvent(stream[1])>>

\* the bytes a push works on: what the decoder held and the chunk
Joined == buffer \o Chunk

\* C25: the length bound is inclusive.  A header declaring exactly the
\* maximum is accepted: the push emits nothing for it while payload bytes are
\* missing, and emits its frame, with all L bytes, once they are present.  A
\* header declaring the maximum plus one yields the fatal error.  No frame
\* event ever carries a payload longer than the maximum.
C25_InclusiveBound ==
    [][/\ (Pushing /\ Len(Joined) >= HeaderSize
                   /\ SubSeq(Joined, 1, HeaderSize) = U32LE(MaxFrameSize)) =>
            IF Len(Joined) < HeaderSize + MaxFrameSize
            THEN NewEvents = <<>> /\ buffer' = Joined
            ELSE NewEvents[1] =
                    FrameEvent(SubSeq(Joined, HeaderSize + 1, HeaderSize + MaxFrameSize))
       /\ (Pushing /\ Len(Joined) >= HeaderSize
                   /\ SubSeq(Joined, 1, HeaderSize) = U32LE(MaxFrameSize + 1)) =>
            NewEvents = <<ErrorEvent>> /\ buffer' = <<>>
       /\ \A i \in 1..Len(emitted') :
            emitted'[i].ev = "frame" => Len(emitted'[i].payload) <= MaxFrameSize]_vars

\* a frame of exactly the maximum was emitted, a frame one byte longer was refused
C25_Witness ==
    /\ Len(stream) = 2
    /\ Len(stream[1]) = MaxFrameSize
    /\ Len(stream[2]) = MaxFrameSize + 1
    /\ emitted = <<FrameEvent(stream[1]), ErrorEvent>>
    /\ resetAt = 0

\* C26: empty payload.  A header declaring L = 0 at the head of the bytes a
\* push works on makes it emit one frame event with a payload of length
\* zero and consume exactly the 4 bytes of the header; decoding goes on with
\* the bytes that follow, as a decoder would that is given only these.
C26_EmptyPayload ==
    [][(Pushing /\ Len(Joined) >= HeaderSize
                /\ SubSeq(Joined, 1, HeaderSize) = U32LE(0)) =>
            LET rest == push([Bare EXCEPT !.buffer = <<>>],
                             SubSeq(Joined, HeaderSize + 1, Len(Joined)))
            IN  /\ NewEvents = <<FrameEvent(<<>>)>> \o rest.events
                /\ buffer' = rest.buffer
                /\ uncaught' = uncaught]_vars

\* an empty frame and the frame behind it have both been emitted
C26_Witness ==
    /\ Len(stream) = 2
    /\ stream[1] = <<>>
    /\ Len(stream[2]) = 1
    /\ emitted = <<FrameEvent(<<>>), FrameEvent(stream[2])>>
    /\ buffer = <<>>

\* C27: reset discards unconditionally.  reset() leaves no pending byte, and
\* from then on the decoder is in step with its twin, a decoder constructed
\* at the moment of the reset and pushed only the chunks pushed since: the
\* same bytes pending, the same events in the same order.  So no byte pushed
\* before the reset is part of a frame emitted after it.
C27_ResetDiscards ==
    [][/\ decoderReset => Len(buffer') = 0
       /\ buffer' = twin'.buffer
       /\ SubSeq(emitted', resetAt' + 1, Len(emitted')) = twin'.events]_vars

\* reset() was called while the header of the second frame was pending; the
\* payload that followed was decoded as a frame of its own
C27_Witness ==
    /\ Len(stream) = 2
    /\ stream[2] = <<1, 0, 0, 0, 9>>
    /\ resetAt = 1
    /\ emitted = <<FrameEvent(stream[1]), FrameEvent(<<9>>)>>
    /\ twin.events = <<FrameEvent(<<9>>)>>
    /\ inbound = <<>>

\* C28: bounded decoder memory.  Whenever a push has returned, the decoder
\* holds at most maxFrameSize + 3 bytes, whatever the peer has sent and in
\* whatever chunks.
C28_BoundedMemory ==
    Len(buffer) <= MaxFrameSize + 3

\* the bound is reached: all of a frame of the maximum length but its last
\* byte is pending
C28_Witness ==
    /\ Len(buffer) = MaxFrameSize + 3
    /\ Len(inbound) = 1
    /\ emitted = <<>>

\* C29: string codec round-trip.  For every string s, decodeString applied
\* to encodeString(s) at the offset where the encoding begins (0, or k
\* behind a padding of k bytes) returns s, and as the consumed count 2 plus
\* the number of UTF-8 bytes of s.
C29_StringRoundTrip ==
    text.step = "decoded" =>
        /\ ~text.result.threw
        /\ text.result.str = text.str
        /\ text.result.consumed = 2 + Len(TextEncode(text.str))

\* C30: sequence number wrap.  The counter changes only by an accepted send,
\* which advances it by one, wrapping at the unsigned 32-bit boundary: every
\* value it takes lies in 0..2^32 - 1 (of which the model can hold the
\* values up to 2^31 - 1; it holds negative values as they are).
C30_SequenceWrap ==
    [][sequenceId' # sequenceId =>
            /\ \E r \in Reqs : phase[r] = "idle" /\ phase'[r] = "accepted"
            /\ sequenceId' >= 0
            /\ sequenceId' = sequenceId + 1]_vars

\* the number of socket.write calls made for request r
WritesOf(w, r) == Cardinality({i \in 1..Len(w) : w[i] = r})

\* C31: no internal retry.  Every accepted send has made exactly one
\* socket.write call for its frame and every refused send none; a write
\* happens only within the send call that is accepted, so no timeout, error,
\* close or decoder event writes a frame again.
C31_NoInternalRetry ==
    [][/\ \A r \in Reqs :
            WritesOf(written', r) = IF phase'[r] = "accepted" THEN 1 ELSE 0
       /\ written' # written =>
            \E r \in Reqs : /\ phase[r] = "idle"
                             /\ phase'[r] = "accepted"
                             /\ written' = Append(written, r)]_vars

\* two requests were written once each and have failed, a third was refused
C31_Witness ==
    /\ written = <<1, 2>>
    /\ phase[3] = "refused"
    /\ outcome[1].kind = "rejected"
    /\ outcome[2].kind = "rejected"
    /\ pending = <<>>

\* the position of the write of request r among the socket.write calls
WritePosition(r) == CHOOSE i \in 1..Len(written) : written[i] = r

\* C32: write order equals pending order.  In every reachable state every
\* pending entry has had its frame written, the entries stand in the pending
\* set in the order of these writes, and the writes stand in the order of
\* the accepted send calls; so a removal never reorders what remains.
C32_WriteOrder ==
    /\ \A i \in 1..Len(pending) : WritesOf(written, pending[i].req) = 1
    /\ \A i, j \in 1..Len(pending) :
            i < j => WritePosition(pending[i].req) < WritePosition(pending[j].req)
    /\ \A i, j \in 1..Len(written) : i < j => written[i] < written[j]

\* the second of three requests was removed from between the others
C32_Witness ==
    /\ written = <<1, 2, 3>>
    /\ Len(pending) = 2
    /\ pending[1].req = 1
    /\ pending[2].req = 3

\* the bytes the frames among the events take on the wire
RECURSIVE WireBytes(_)
WireBytes(events) ==
    IF events = <<>> THEN 0
    ELSE (IF Head(events).ev = "frame" THEN HeaderSize + Len(Head(events).payload) ELSE 0)
         + WireBytes(Tail(events))

\* C33: each frame is delivered once.  A push takes every frame it emits
\* out of the decoder buffer, also when the frame listener raises an
\* exception: unless it meets an oversized header, the bytes held after the
\* push are the bytes held before and the chunk, less the bytes of the
\* frames emitted.  So no later push can emit one of these frames again.
C33_DeliveredOnce ==
    [][\A k \in ChunkLens(inbound) :
            socketData(k) =>
                LET s == push(Cur, SubSeq(inbound, 1, k))
                IN  (\A i \in 1..Len(s.events) : s.events[i].ev = "frame") =>
                        Len(buffer') = Len(buffer) + k - WireBytes(s.events)]_vars

\* tag bytes: the three response tags and their neighbours, a request opcode,
\* the smallest and the largest byte
TagBytes == {0, SYS_PING, RESPONSE_OK - 1, RESPONSE_OK, RESPONSE_ERROR,
             RESPONSE_EVENT, RESPONSE_EVENT + 1, 255}

\* frames with each of these tags, without a body and with one
TaggedPayloads == {<<tag>> : tag \in TagBytes} \cup {<<tag, 7>> : tag \in TagBytes}

\* C34: tag-blind matching.  The pipeline drops a non-empty frame, leaving
\* its state as it is, only when nothing is pending.  When something is
\* pending, a frame with any tag byte, RESPONSE_EVENT included, takes the
\* oldest entry out of the pending set, and unless the tag is RESPONSE_ERROR
\* it resolves that entry with the bytes behind the tag.
C34_TagBlindMatching ==
    \A p \in TaggedPayloads \cup ErrorPayloads :
        LET t == handleFrame(Cur, p)
        IN  /\ (t = Cur) <=> (pending = <<>>)
            /\ pending # <<>> =>
                /\ t.pending = Tail(pending)
                /\ p[1] # RESPONSE_ERROR =>
                    /\ ~t.threw
                    /\ t.calls[Oldest] = calls[Oldest] + 1
                    /\ outcome[Oldest].kind = "none" =>
                            t.outcome[Oldest] = Resolved(Tail(p))

\* an event frame of the server has resolved the request that was pending
C34_Witness ==
    /\ faults = <<"push">>
    /\ outcome[1] = Resolved(<<0>>)
    /\ calls[1] = 1
    /\ pending = <<>>

\* C35: a zero-length frame is ignored.  Handling a frame without payload
\* changes nothing in any state, and when the socket delivers such a frame,
\* alone and whole, to a decoder that holds nothing, the pending set, its
\* order and every continuation are as before and the frame is consumed.
C35_EmptyFrameIgnored ==
    [][/\ handleFrame(Cur, <<>>) = Cur
       /\ \A k \in ChunkLens(inbound) :
            (socketData(k) /\ buffer = <<>> /\ SubSeq(inbound, 1, k) = U32LE(0)) =>
                /\ pending' = pending
                /\ calls' = calls
                /\ outcome' = outcome
                /\ uncaught' = uncaught
                /\ buffer' = <<>>]_vars

\* the frame the server pushed has been consumed and the request that was
\* written is pending as before
C35_Witness ==
    /\ faults = <<"push">>
    /\ written = <<1>>
    /\ Len(pending) = 1
    /\ calls[1] = 0
    /\ writeQ # <<>>
    /\ inbound = <<>>
    /\ buffer = <<>>
    /\ ~uncaught

\* C36: inbound data after destroy is harmless.  Once destroy() has run,
\* bytes the socket still delivers, frames or an oversized header, invoke no
\* continuation of any request and raise no error out of the handler of the
\* socket's 'data' event.
C36_HarmlessAfterDestroy ==
    [][\A k \in ChunkLens(inbound) :
            (socketData(k) /\ ~listening) =>
                /\ calls' = calls
                /\ outcome' = outcome
                /\ uncaught' = uncaught]_vars

\* the frame events among the events
FramesOf(events) == SelectSeq(events, LAMBDA e : e.ev = "frame")

\* C37: parseFrame and FrameDecoder agree.  For the bytes pushed in one
\* chunk into a decoder that holds nothing: parseFrame returns a frame
\* exactly when the decoder emits at least one frame, and the first payload
\* emitted is the parsed opcode followed by the parsed payload; parseFrame
\* returns null exactly when the decoder emits no event at all; parseFrame
\* throws exactly when the first event of the decoder is the error for an
\* oversized frame.
C37_ParseFrameAgrees ==
    [][(Pushing /\ buffer = <<>>) =>
            LET parsed == parseFrame(Chunk)
                frames == FramesOf(NewEvents)
            IN  /\ (parsed.kind = "frame") <=> (frames # <<>>)
                /\ parsed.kind = "frame" =>
                        frames[1].payload = <<parsed.opcode>> \o parsed.payload
                /\ (parsed.kind = "null") <=> (NewEvents = <<>>)
                /\ (parsed.kind = "throw") <=>
                        (NewEvents # <<>> /\ NewEvents[1] = ErrorEvent)]_vars

\* a request the caller is still waiting for: send took it and its promise
\* has not settled
Outstanding(r) == phase[r] = "accepted" /\ outcome[r].kind = "none"

\* C38: an API operation issued before any connect() has succeeded, or after
\* disconnect() was called on the connection made last, fails with 'Not
\* connected', hands nothing to a socket and creates no pending entry.
C38_SendNeedsPipeline ==
    [][\A r \in Reqs :
        (apiSend(r) /\ (client.connected = 0 \/ client.disconnected)) =>
            /\ phase'[r] = "unconnected"
            /\ outcome'[r] = Rejected("notconnected", <<>>)
            /\ written' = written
            /\ writeQ' = writeQ
            /\ pending' = pending
            /\ sequenceId' = sequenceId]_vars

\* an operation before the connection, one on it, one after disconnect()
C38_Witness ==
    /\ client.connected = 1
    /\ client.disconnected
    /\ phase[1] = "unconnected"
    /\ phase[2] = "accepted"
    /\ phase[3] = "unconnected"
    /\ outcome[3] = Rejected("notconnected", <<>>)

\* C39: disconnect fails the requests in flight.  When disconnect() is called
\* every outstanding request is rejected with the 'destroyed' error and
\* pendingRequests reads 0 afterwards; a request rejected that way keeps that
\* outcome whatever arrives later.
C39_DisconnectFailsInFlight ==
    [][/\ disconnectCall =>
            /\ \A r \in Reqs : Outstanding(r) =>
                    outcome'[r] = Rejected("destroy", <<>>)
            /\ pendingRequests' = 0
       /\ \A r \in Reqs : outcome[r].by = "destroy" => outcome'[r] = outcome[r]]_vars

\* C40: reconnect is possible whenever the client is not connected.  A
\* connect() called while isConnected is false and no disconnect() is under
\* way does not fail with 'Already connected'.
C40_ReconnectPossible ==
    [][(connectCall /\ ~isConnected /\ ~client.ending) =>
            client'.lastConnect # "Already connected"]_vars

====
